---- MODULE Spec2Model ----
(***************************************************************************)
(* A model of cyt_bridge.py: the CYT bridge server.  One handler thread    *)
(* per connection (socketserver.ThreadingTCPServer) runs do_GET / do_POST  *)
(* / do_OPTIONS of CytBridgeHandler.  The model follows every write to the *)
(* caller's socket (wfile), every request to the two upstream services and *)
(* the exception that is in flight, so that the except clauses of the      *)
(* handlers decide what the caller receives.                               *)
(***************************************************************************)
EXTENDS Integers, Sequences, FiniteSets, TLC

(***************************************************************************)
(* Program constants.                                                      *)
(***************************************************************************)
ChunkSize == 8192
SummaryMax == 500
FallbackMax == 200
DefaultScore == 50
NumEndpoints == 4

(***************************************************************************)
(* Bounds of the model.                                                    *)
(***************************************************************************)
\* upstream device bodies are up to MaxChunks full chunks plus one byte long
MaxChunks == 2
\* the upstream bodies differ by a shift of their byte pattern: 0..MaxSeed
MaxSeed == 1

Threads == {1, 2}

Min(a, b) == IF a < b THEN a ELSE b

(***************************************************************************)
(* Python's exception classes, as far as the handlers tell them apart.     *)
(* HTTPError is a URLError; http.client.RemoteDisconnected is a            *)
(* ConnectionResetError; socket.timeout is TimeoutError, an OSError but    *)
(* no URLError; http.client.IncompleteRead is an HTTPException.            *)
(***************************************************************************)
Parent ==
    [HTTPError |-> "URLError", URLError |-> "OSError",
     TimeoutError |-> "OSError", ConnectionError |-> "OSError",
     BrokenPipeError |-> "ConnectionError",
     ConnectionResetError |-> "ConnectionError",
     RemoteDisconnected |-> "ConnectionResetError",
     OSError |-> "Exception", IncompleteRead |-> "HTTPException",
     HTTPException |-> "Exception", JSONDecodeError |-> "ValueError",
     ValueError |-> "Exception", TypeError |-> "Exception",
     KeyError |-> "Exception", AttributeError |-> "Exception",
     OverflowError |-> "Exception", Exception |-> "BaseException"]

RECURSIVE IsInstance(_, _)
IsInstance(exc, cls) ==
    IF exc = cls THEN TRUE
    ELSE IF exc \in DOMAIN Parent THEN IsInstance(Parent[exc], cls)
    ELSE FALSE

(***************************************************************************)
(* What is written to the caller's socket, one element per wfile write.    *)
(* send_response buffers the status line; end_headers flushes the status   *)
(* line and the headers in one write ("head"), with the cross-origin       *)
(* headers when _set_headers was used.                                     *)
(***************************************************************************)
NoVal == [none |-> TRUE]

HeadEv(code, cors) ==
    [kind |-> "head", code |-> code, cors |-> cors, bytes |-> <<>>, val |-> NoVal]

DataEv(b) ==
    [kind |-> "data", code |-> 0, cors |-> FALSE, bytes |-> b, val |-> NoVal]

\* the HTML page send_error writes after its head
HtmlEv ==
    [kind |-> "html", code |-> 0, cors |-> FALSE, bytes |-> <<>>, val |-> NoVal]

\* json.dumps(d).encode(): the keys of the body are DOMAIN d
JsonEv(d) ==
    [kind |-> "json", code |-> 0, cors |-> FALSE, bytes |-> <<>>, val |-> d]

(***************************************************************************)
(* The upstream device service's bodies: byte i of a body is               *)
(* (i + seed) % 251, so that neighbouring bytes and the starts of          *)
(* neighbouring chunks differ.                                             *)
(***************************************************************************)
BodyLens ==
    {0, 1} \cup {k * ChunkSize + d : k \in 1..MaxChunks, d \in {0, 1}}

MakeBody(len, seed) == [i \in 1..len |-> (i + seed) % 251]

\* upstream statuses urlopen raises HTTPError for
ErrorStatuses == {404, 500, 503}

\* the except clauses with "except Exception" tried before URLError
ExceptClauseBroadFirst(e) ==
    IF IsInstance(e, "BrokenPipeError") \/ IsInstance(e, "ConnectionResetError")
    THEN "pass"
    ELSE IF IsInstance(e, "Exception") THEN "internal"
    ELSE IF IsInstance(e, "URLError") THEN "bad_gateway"
    ELSE "propagate"

(***************************************************************************)
(* do_GET /devices: the except clauses of lines 352-377, in the order      *)
(* Python tries them.                                                      *)
(***************************************************************************)
ExceptClause(e) ==
    IF IsInstance(e, "BrokenPipeError") \/ IsInstance(e, "ConnectionResetError")
    THEN "pass"
    ELSE IF IsInstance(e, "URLError") THEN "bad_gateway"
    ELSE IF IsInstance(e, "Exception") THEN "internal"
    ELSE "propagate"

\* what urllib.request.urlopen raises for each thing the upstream can do
\* before a response is there: a failure while connecting or sending is
\* wrapped in URLError (do_open), one while waiting for the status line and
\* headers (getresponse) is raised as it is
OpenEvents ==
    {"ok", "http_error", "refused", "connect_timeout", "header_timeout",
     "remote_closed"}

OpenRaises(ev) ==
    CASE ev = "http_error" -> "HTTPError"
      [] ev = "refused" -> "URLError"
      [] ev = "connect_timeout" -> "URLError"
      [] ev = "header_timeout" -> "TimeoutError"
      [] ev = "remote_closed" -> "RemoteDisconnected"
      [] OTHER -> "none"

\* what response.read(8192) can raise once the response is open
ReadFaults ==
    [read_timeout |-> "TimeoutError", read_incomplete |-> "IncompleteRead",
     read_reset |-> "ConnectionResetError"]

\* what a failed write to the caller raises
WriteFaults == {"BrokenPipeError", "ConnectionResetError"}

\* a read that gives only full chunks: what is left of the body when fewer
\* than ChunkSize bytes remain is taken for the end of the stream
NextChunkFullOnly(body, pos) ==
    IF Len(body) - pos < ChunkSize THEN <<>>
    ELSE SubSeq(body, pos + 1, pos + ChunkSize)

\* response.read() without a size: all that is left of the body at once
NextChunkAll(body, pos) == SubSeq(body, pos + 1, Len(body))

\* response.read(8192): the next at most ChunkSize bytes, empty at the end
\* (the response reads through a buffered reader, which gives fewer bytes
\* than asked for only when the body ends)
NextChunk(body, pos) == SubSeq(body, pos + 1, Min(pos + ChunkSize, Len(body)))

\* the body of the 502 / 500 answers of /devices
GatewayError ==
    [error |-> "Could not connect to Kismet", details |-> "str(e)",
     suggestion |-> "Ensure Kismet is running (systemctl start kismet)"]

InternalError == [error |-> "str(e)"]

\* the loop without its break: an empty chunk is written like any other
AfterReadNoBreak(c) == "dev_write"

\* "if not chunk: break" of lines 348-349
AfterRead(c) == IF c = <<>> THEN "dev_exit" ELSE "dev_write"

\* one buffer for all handler threads, as a class attribute would be
BufferShared(t) == 1

\* chunk is a local of thread t's do_GET call: each thread has its own
Buffer(t) == t

\* a write failure passed over inside the loop, which goes on reading
OnWriteFaultSwallow(e) == [pc |-> "dev_read", exc |-> "none"]

\* a write to the caller raises inside the with block: the exception leaves
\* the loop and the with block, nothing in the loop catches it
OnWriteFault(e) == [pc |-> "dev_exit", exc |-> e]

\* one more try of the upstream after it could not be reached
DevAfterExceptRetry(clause) ==
    IF clause = "bad_gateway" THEN "dev_open" ELSE "done"

\* where do_GET /devices goes after an except clause has run: line 378
DevAfterExcept(clause) == "done"

VARIABLES
    apiKeySet,   \* GEMINI_API_KEY is set (module level, read only)
    method,      \* [t]: the request's method
    path,        \* [t]: self.path
    reqBody,     \* [t]: the POST body: "object", "nonobject", "invalid"
    reqCLen,     \* [t]: the request has a Content-Length header
    reqPersist,  \* [t]: persistenceScore is a number (or absent)
    pc,          \* [t]: where the handler thread is
    wire,        \* [t]: what has been written to the caller's socket
    callerGone,  \* [t]: a write to the caller has raised (broken pipe / reset)
    exc,         \* [t]: the exception in flight, "none" when there is none
    upReqs,      \* [t]: requests issued to the device service (urlopen calls)
    upEvent,     \* [t]: what the device service did to the request
    upStatus,    \* [t]: the status the device service answered, 0 when none
    upBody,      \* [t]: the body the device service delivers
    upPos,       \* [t]: the bytes of upBody read so far
    upOpen,      \* [t]: the upstream response handle is open
    upReads,     \* [t]: response.read calls made
    chunk,       \* [t]: the local variable chunk
    epIdx,       \* [t]: the position of the loop over api_endpoints, 1-based
    attempts,    \* [t]: the endpoints a POST was sent to, in order
    reply,       \* [t]: what the last POST to the analysis API gave
    result,      \* [t]: what analyze_device_with_gemini returned
    shell,       \* [t]: the os.system commands run
    script       \* [t]: the cleanup script: "absent", "ok", "failed"

reqVars == <<apiKeySet, method, path, reqBody, reqCLen, reqPersist>>
devVars == <<upReqs, upEvent, upStatus, upBody, upPos, upOpen, upReads, chunk>>
anaVars == <<epIdx, attempts, reply, result>>
purgeVars == <<shell, script>>
vars == <<reqVars, pc, wire, callerGone, exc, devVars, anaVars, purgeVars>>

(***************************************************************************)
(* The requests a caller can send.  Only POST /analyze reads a body.       *)
(* HEAD is served by do_HEAD of the base class SimpleHTTPRequestHandler;   *)
(* PUT stands for the methods no do_ method exists for.                    *)
(***************************************************************************)
Methods == {"GET", "POST", "OPTIONS", "HEAD", "PUT"}
Paths == {"/system", "/devices", "/analyze", "/purge", "/other"}
BodyKinds == {"object", "nonobject", "invalid"}

Requests ==
    {r \in [method : Methods, path : Paths, body : BodyKinds,
            clen : BOOLEAN, persist : BOOLEAN] :
        (r.method = "POST" /\ r.path = "/analyze")
        \/ (r.body = "object" /\ r.clen /\ r.persist)}

NoText ==
    [fence |-> "none", form |-> "none", len |-> 0, summary |-> -1,
     score |-> [ty |-> "absent", n |-> 0], rec |-> "absent"]

NoReply == [kind |-> "none", code |-> 0, text |-> NoText]

\* thread t takes request r; the other threads have no connection
InitWith(active) ==
    /\ apiKeySet \in BOOLEAN
    /\ \E rq \in [Threads -> Requests] :
          /\ \A t \in Threads \ active : rq[t] = rq[CHOOSE a \in active : TRUE]
          /\ method = [t \in Threads |-> rq[t].method]
          /\ path = [t \in Threads |-> rq[t].path]
          /\ reqBody = [t \in Threads |-> rq[t].body]
          /\ reqCLen = [t \in Threads |-> rq[t].clen]
          /\ reqPersist = [t \in Threads |-> rq[t].persist]
    /\ pc = [t \in Threads |-> IF t \in active THEN "dispatch" ELSE "idle"]
    /\ wire = [t \in Threads |-> <<>>]
    /\ callerGone = [t \in Threads |-> FALSE]
    /\ exc = [t \in Threads |-> "none"]
    /\ upReqs = [t \in Threads |-> 0]
    /\ upEvent = [t \in Threads |-> "none"]
    /\ upStatus = [t \in Threads |-> 0]
    /\ upBody = [t \in Threads |-> <<>>]
    /\ upPos = [t \in Threads |-> 0]
    /\ upOpen = [t \in Threads |-> FALSE]
    /\ upReads = [t \in Threads |-> 0]
    /\ chunk = [t \in Threads |-> <<>>]
    /\ epIdx = [t \in Threads |-> 0]
    /\ attempts = [t \in Threads |-> <<>>]
    /\ reply = [t \in Threads |-> NoReply]
    /\ result = [t \in Threads |-> NoVal]
    /\ shell = [t \in Threads |-> <<>>]
    /\ script = [t \in Threads |-> "none"]

Init == InitWith({1})

(***************************************************************************)
(* Writing to the caller.  A write either succeeds or raises               *)
(* BrokenPipeError / ConnectionResetError; once one has raised, the        *)
(* caller is gone and every later write raises too.  Reply(t, evs, k)      *)
(* writes the first k of the writes evs and fails on the next one.         *)
(***************************************************************************)
CanWrite(t, evs) ==
    IF callerGone[t] THEN {0} ELSE 0..Len(evs)

Reply(t, evs, k) ==
    /\ wire' = [wire EXCEPT ![t] = @ \o SubSeq(evs, 1, k)]
    /\ callerGone' = [callerGone EXCEPT ![t] = @ \/ k < Len(evs)]

(***************************************************************************)
(* The router: do_GET, do_POST and do_OPTIONS compare self.path.  The      *)
(* class defines no do_HEAD and no do_PUT: HEAD runs the inherited         *)
(* do_HEAD, and for PUT handle_one_request finds no method.                *)
(***************************************************************************)
Route(m, p) ==
    CASE m = "OPTIONS" -> "options"
      [] m = "HEAD" -> "head_file"
      [] m = "PUT" -> "unsupported"
      [] m = "GET" /\ p = "/system" -> "system"
      [] m = "GET" /\ p = "/devices" -> "dev_open"
      [] m = "POST" /\ p = "/analyze" -> "ana_parse"
      [] m = "POST" /\ p = "/purge" -> "purge"
      [] OTHER -> "not_found"

Dispatch(t) ==
    /\ pc[t] = "dispatch"
    /\ pc' = [pc EXCEPT ![t] = Route(method[t], path[t])]
    /\ UNCHANGED <<reqVars, wire, callerGone, exc, devVars, anaVars, purgeVars>>

\* do_OPTIONS: send_response(200), _set_headers()
Options(t) ==
    /\ pc[t] = "options"
    /\ \E k \in CanWrite(t, <<HeadEv(200, TRUE)>>) :
          Reply(t, <<HeadEv(200, TRUE)>>, k)
    /\ pc' = [pc EXCEPT ![t] = "done"]
    /\ UNCHANGED <<reqVars, exc, devVars, anaVars, purgeVars>>

\* GET /system: 200, the headers, then the stats; a broken pipe is passed over
SystemStats == [cpu_temp |-> "float", status |-> "online", backend |-> "kismet"]

GetSystem(t) ==
    /\ pc[t] = "system"
    /\ LET evs == <<HeadEv(200, TRUE), JsonEv(SystemStats)>>
       IN \E k \in CanWrite(t, evs) : Reply(t, evs, k)
    /\ pc' = [pc EXCEPT ![t] = "done"]
    /\ UNCHANGED <<reqVars, exc, devVars, anaVars, purgeVars>>

\* the default of do_GET and do_POST: send_response(404), end_headers()
NotFound(t) ==
    /\ pc[t] = "not_found"
    /\ \E k \in CanWrite(t, <<HeadEv(404, FALSE)>>) :
          Reply(t, <<HeadEv(404, FALSE)>>, k)
    /\ pc' = [pc EXCEPT ![t] = "done"]
    /\ UNCHANGED <<reqVars, exc, devVars, anaVars, purgeVars>>

\* the inherited do_HEAD: the head of the file the path names under the
\* working directory, 200 when there is one and 404 when there is none
HeadFile(t) ==
    /\ pc[t] = "head_file"
    /\ \E found \in BOOLEAN :
          LET evs == <<HeadEv(IF found THEN 200 ELSE 404, FALSE)>>
          IN \E k \in CanWrite(t, evs) : Reply(t, evs, k)
    /\ pc' = [pc EXCEPT ![t] = "done"]
    /\ UNCHANGED <<reqVars, exc, devVars, anaVars, purgeVars>>

\* a method without a do_ method: send_error(501), a head and an HTML page
Unsupported(t) ==
    /\ pc[t] = "unsupported"
    /\ LET evs == <<HeadEv(501, FALSE), HtmlEv>>
       IN \E k \in CanWrite(t, evs) : Reply(t, evs, k)
    /\ pc' = [pc EXCEPT ![t] = "done"]
    /\ UNCHANGED <<reqVars, exc, devVars, anaVars, purgeVars>>

\* POST /purge: chmod and run the script with os.system, whose results are
\* dropped, then 200 {status, message}
PurgeReply == [status |-> "executed", message |-> "Purge command received"]

Purge(t) ==
    /\ pc[t] = "purge"
    /\ \E s \in {"absent", "ok", "failed"} :
          script' = [script EXCEPT ![t] = s]
    /\ shell' = [shell EXCEPT ![t] =
                    @ \o <<"chmod +x ./clean_kismet.sh", "./clean_kismet.sh">>]
    /\ LET evs == <<HeadEv(200, TRUE), JsonEv(PurgeReply)>>
       IN \E k \in CanWrite(t, evs) : Reply(t, evs, k)
    /\ pc' = [pc EXCEPT ![t] = "done"]
    /\ UNCHANGED <<reqVars, exc, devVars, anaVars>>

(***************************************************************************)
(* GET /devices, lines 304-378.                                            *)
(***************************************************************************)
\* urlopen(req, timeout=25): one request to the device service
DevOpenWith(t, lens) ==
    /\ pc[t] = "dev_open"
    /\ upReqs' = [upReqs EXCEPT ![t] = @ + 1]
    /\ \E ev \in OpenEvents :
          /\ upEvent' = [upEvent EXCEPT ![t] = ev]
          /\ exc' = [exc EXCEPT ![t] = OpenRaises(ev)]
          /\ IF ev = "ok"
             THEN /\ \E len \in lens, seed \in 0..MaxSeed :
                        upBody' = [upBody EXCEPT ![t] = MakeBody(len, seed)]
                  /\ upStatus' = [upStatus EXCEPT ![t] = 200]
                  /\ upOpen' = [upOpen EXCEPT ![t] = TRUE]
                  /\ pc' = [pc EXCEPT ![t] = "dev_commit"]
             ELSE /\ IF ev = "http_error"
                     THEN \E code \in ErrorStatuses :
                             upStatus' = [upStatus EXCEPT ![t] = code]
                     ELSE UNCHANGED upStatus
                  /\ pc' = [pc EXCEPT ![t] = "dev_except"]
                  /\ UNCHANGED <<upBody, upOpen>>
    /\ UNCHANGED <<reqVars, wire, callerGone, upPos, upReads, chunk,
                   anaVars, purgeVars>>

DevOpen(t) == DevOpenWith(t, BodyLens)

\* send_response(200), _set_headers(): the 200 and the headers go out
DevCommit(t) ==
    /\ pc[t] = "dev_commit"
    /\ \/ /\ Reply(t, <<HeadEv(200, TRUE)>>, 1)
          /\ pc' = [pc EXCEPT ![t] = "dev_read"]
          /\ UNCHANGED exc
       \/ /\ Reply(t, <<HeadEv(200, TRUE)>>, 0)
          /\ \E e \in WriteFaults :
                /\ exc' = [exc EXCEPT ![t] = OnWriteFault(e).exc]
                /\ pc' = [pc EXCEPT ![t] = OnWriteFault(e).pc]
    /\ UNCHANGED <<reqVars, devVars, anaVars, purgeVars>>

\* chunk = response.read(8192); if not chunk: break
DevRead(t) ==
    /\ pc[t] = "dev_read"
    /\ upReads' = [upReads EXCEPT ![t] = @ + 1]
    /\ \/ /\ chunk' = [chunk EXCEPT ![Buffer(t)] = NextChunk(upBody[t], upPos[t])]
          /\ upPos' = [upPos EXCEPT ![t] = @ + Len(chunk'[Buffer(t)])]
          /\ pc' = [pc EXCEPT ![t] = AfterRead(chunk'[Buffer(t)])]
          /\ UNCHANGED <<exc, upEvent>>
       \/ /\ \E f \in DOMAIN ReadFaults :
                /\ upEvent' = [upEvent EXCEPT ![t] = f]
                /\ exc' = [exc EXCEPT ![t] = ReadFaults[f]]
          /\ pc' = [pc EXCEPT ![t] = "dev_exit"]
          /\ UNCHANGED <<chunk, upPos>>
    /\ UNCHANGED <<reqVars, wire, callerGone, upReqs, upStatus, upBody, upOpen,
                   anaVars, purgeVars>>

\* self.wfile.write(chunk): it succeeds, or it raises, or, the handler's
\* socket having no timeout, it waits without end for a caller that neither
\* reads nor closes ("dev_blocked")
DevWrite(t) ==
    /\ pc[t] = "dev_write"
    /\ \/ /\ Reply(t, <<DataEv(chunk[Buffer(t)])>>, 1)
          /\ pc' = [pc EXCEPT ![t] = "dev_read"]
          /\ UNCHANGED exc
       \/ /\ Reply(t, <<DataEv(chunk[Buffer(t)])>>, 0)
          /\ \E e \in WriteFaults :
                /\ exc' = [exc EXCEPT ![t] = OnWriteFault(e).exc]
                /\ pc' = [pc EXCEPT ![t] = OnWriteFault(e).pc]
       \/ /\ pc' = [pc EXCEPT ![t] = "dev_blocked"]
          /\ UNCHANGED <<wire, callerGone, exc>>
    /\ UNCHANGED <<reqVars, devVars, anaVars, purgeVars>>

\* leaving the with block, by break or by an exception, closes the response
DevExit(t) ==
    /\ pc[t] = "dev_exit"
    /\ upOpen' = [upOpen EXCEPT ![t] = FALSE]
    /\ pc' = [pc EXCEPT ![t] = IF exc[t] = "none" THEN "done" ELSE "dev_except"]
    /\ UNCHANGED <<reqVars, wire, callerGone, exc, upReqs, upEvent, upStatus,
                   upBody, upPos, upReads, chunk, anaVars, purgeVars>>

\* the except clauses; a failure inside one is passed over
DevExcept(t) ==
    /\ pc[t] = "dev_except"
    /\ LET clause == ExceptClause(exc[t])
           evs == CASE clause = "bad_gateway" ->
                         <<HeadEv(502, TRUE), JsonEv(GatewayError)>>
                    [] clause = "internal" ->
                         <<HeadEv(500, TRUE), JsonEv(InternalError)>>
                    [] OTHER -> <<>>
       IN /\ \E k \in CanWrite(t, evs) : Reply(t, evs, k)
          /\ pc' = [pc EXCEPT ![t] = DevAfterExcept(clause)]
    /\ exc' = [exc EXCEPT ![t] = "none"]
    /\ UNCHANGED <<reqVars, devVars, anaVars, purgeVars>>

DevNext(t) ==
    \/ DevOpen(t) \/ DevCommit(t) \/ DevRead(t) \/ DevWrite(t)
    \/ DevExit(t) \/ DevExcept(t)

(***************************************************************************)
(* analyze_device_with_gemini, lines 19-250.                               *)
(*                                                                         *)
(* A Python dict is a function whose DOMAIN is its keys.  A string is      *)
(* [lit, len]: a literal of the program with its length, or "<upstream>"   *)
(* for text that came from the analysis API, of which only the length is   *)
(* followed.                                                               *)
(***************************************************************************)
Str(s) == [lit |-> s, len |-> Len(s)]
Upstream(n) == [lit |-> "<upstream>", len |-> n]

\* s[:n]
Truncate(s, n) == [s EXCEPT !.len = Min(@, n)]

ConfigErrorResult ==
    [summary |-> Str("API Key not configured on server"), threatScore |-> 0,
     recommendation |-> Str("Config Error")]

RateLimitResult ==
    [summary |-> Str("Rate limit exceeded (wait 60s)"), threatScore |-> 0,
     recommendation |-> Str("Wait")]

AllFailedResult ==
    [summary |-> Str("All API endpoints failed"), threatScore |-> 0,
     recommendation |-> Str("Error")]

\* f'Error: {type(e).__name__}'
TopLevelErrorResult(e) ==
    [summary |-> [lit |-> "Error: <type>", len |-> Len("Error: ") + Len(e)],
     threatScore |-> 0, recommendation |-> Str("Error")]

\* do_POST's own 500 body, f'Server error: {str(e)}'
ServerErrorResult ==
    [summary |-> [lit |-> "Server error: <str(e)>", len |-> Len("Server error: ")],
     threatScore |-> 0, recommendation |-> Str("Error")]

(***************************************************************************)
(* What the analysis API can answer to one POST.  The text of the first    *)
(* part of the first candidate is followed by its shape: its code fence,   *)
(* whether it is a JSON object, other JSON or no JSON (of len characters), *)
(* and for an object its summary (length, -1 when absent), its threatScore *)
(* and its recommendation.                                                 *)
(***************************************************************************)
Fences == {"none", "json", "plain"}

Absent == [ty |-> "absent", n |-> 0]

\* threatScore values: integers, 3.7 and -3.7 as tenths, "12", "high", null
Scores ==
    {Absent} \cup {[ty |-> "int", n |-> n] : n \in {-5, 0, 100, 150}}
    \cup {[ty |-> "tenths", n |-> n] : n \in {37, -37}}
    \cup {[ty |-> "str", n |-> 12], [ty |-> "badstr", n |-> 0],
          [ty |-> "null", n |-> 0]}

SummaryLens == {-1, 0, SummaryMax, SummaryMax + 1}
ProseLens == {0, 1, FallbackMax, FallbackMax + 1}

Texts ==
    {[fence |-> f, form |-> "object", len |-> 0, summary |-> s, score |-> sc,
      rec |-> r] :
        f \in Fences, s \in SummaryLens, sc \in Scores,
        r \in {"absent", "Ignore"}}
    \cup {[fence |-> f, form |-> "prose", len |-> n, summary |-> -1,
           score |-> Absent, rec |-> "absent"] : f \in Fences, n \in ProseLens}
    \cup {[fence |-> f, form |-> "nonobject", len |-> 0, summary |-> -1,
           score |-> Absent, rec |-> "absent"] : f \in Fences}

Replies ==
    {[kind |-> "http_error", code |-> c, text |-> NoText] :
        c \in {401, 403, 429, 500}}
    \cup {[kind |-> k, code |-> 0, text |-> NoText] : k \in {"url_error", "timeout"}}
    \cup {[kind |-> k, code |-> 200, text |-> NoText] :
            k \in {"bad_json", "no_candidates", "no_content", "no_parts"}}
    \cup {[kind |-> "text", code |-> 200, text |-> x] : x \in Texts}

\* int(v), lines 200: the value, or the exception int raises
PyInt(v) ==
    CASE v.ty = "int" -> [ok |-> TRUE, n |-> v.n, exc |-> "none"]
      [] v.ty = "tenths" ->
            [ok |-> TRUE, exc |-> "none",
             n |-> IF v.n >= 0 THEN v.n \div 10 ELSE -((-v.n) \div 10)]
      [] v.ty = "str" -> [ok |-> TRUE, n |-> v.n, exc |-> "none"]
      [] v.ty = "badstr" -> [ok |-> FALSE, n |-> 0, exc |-> "ValueError"]
      [] OTHER -> [ok |-> FALSE, n |-> 0, exc |-> "TypeError"]

\* text.strip() and the three re.sub of lines 190-194: the fence is removed
StripFence(x) == [x EXCEPT !.fence = "none"]

\* json.loads(text) of line 197: "object", "nonobject", or "fail" for what is
\* no JSON; fenced text is no JSON
JsonLoads(x) ==
    IF x.fence # "none" \/ x.form = "prose" THEN "fail" ELSE x.form

Returns(r) == [kind |-> "return", result |-> r, exc |-> "none"]
Raises(e) == [kind |-> "raise", result |-> NoVal, exc |-> e]

\* the parsed reply returned as it is, with the keys it happens to have
BuildResultRaw(x, score) ==
    LET keys == {"threatScore"}
                \cup (IF x.summary < 0 THEN {} ELSE {"summary"})
                \cup (IF x.rec = "absent" THEN {} ELSE {"recommendation"})
    IN [k \in keys |->
          CASE k = "summary" -> Upstream(x.summary)
            [] k = "recommendation" -> Str(x.rec)
            [] OTHER -> score]

\* the dict of lines 198-202
BuildResult(x, score) ==
    [summary |->
        Truncate(IF x.summary < 0 THEN Str("Analysis completed")
                 ELSE Upstream(x.summary), SummaryMax),
     threatScore |-> score,
     recommendation |->
        IF x.rec = "absent" THEN Str("Monitor") ELSE Str(x.rec)]

\* the dict of lines 207-211
FallbackResult(x) ==
    [summary |->
        IF x.len > 0 THEN Truncate(Upstream(x.len), FallbackMax)
        ELSE Str("No text"),
     threatScore |-> DefaultScore, recommendation |-> Str("Monitor")]

\* lines 188-211: clean the text and parse it
ParseText(text) ==
    LET x == StripFence(text)
        parsed == JsonLoads(x)
        score == PyInt(IF x.score = Absent
                       THEN [ty |-> "int", n |-> DefaultScore] ELSE x.score)
    IN CASE parsed = "fail" -> Returns(FallbackResult(x))
         [] parsed = "nonobject" -> Raises("AttributeError")
         [] OTHER -> IF score.ok THEN Returns(BuildResult(x, score.n))
                     ELSE Raises(score.exc)

\* lines 162-211: what one POST gives: a result, or an exception, or
\* "continue" when the reply lacks candidates, content or parts
TryReply(r) ==
    CASE r.kind = "http_error" -> Raises("HTTPError")
      [] r.kind \in {"url_error", "timeout"} -> Raises("URLError")
      [] r.kind = "bad_json" -> Raises("JSONDecodeError")
      [] r.kind \in {"no_candidates", "no_content", "no_parts"} ->
            [kind |-> "continue", result |-> NoVal, exc |-> "none"]
      [] OTHER -> ParseText(r.text)

\* the loop's except clauses without the 429 case: every HTTP error goes on
\* to the next endpoint
EndpointCatchNo429(e, code) ==
    IF IsInstance(e, "Exception")
    THEN [kind |-> "continue", result |-> NoVal, exc |-> "none"]
    ELSE Raises(e)

\* the except clauses of the loop body, lines 213-233
EndpointCatch(e, code) ==
    IF IsInstance(e, "HTTPError")
    THEN IF code = 429 THEN Returns(RateLimitResult)
         ELSE [kind |-> "continue", result |-> NoVal, exc |-> "none"]
    ELSE IF IsInstance(e, "Exception")
    THEN [kind |-> "continue", result |-> NoVal, exc |-> "none"]
    ELSE Raises(e)

\* one pass of the loop body after the POST
HandleReply(r) ==
    LET o == TryReply(r)
    IN IF o.kind = "raise" THEN EndpointCatch(o.exc, r.code) ELSE o

\* the same endpoint once more
NextEndpointSame(i) == i

\* every second endpoint of the list
NextEndpointSkip(i) == i + 2

\* the for loop moves to the next endpoint of api_endpoints
NextEndpoint(i) == i + 1

(***************************************************************************)
(* POST /analyze, lines 388-415.                                           *)
(***************************************************************************)
\* lines 390-394: read and parse the body, device_data.get('mac')
ParseRaises(clen, body) ==
    IF ~clen THEN "TypeError"
    ELSE IF body = "invalid" THEN "JSONDecodeError"
    ELSE IF body = "nonobject" THEN "AttributeError"
    ELSE "none"

AnaParse(t) ==
    /\ pc[t] = "ana_parse"
    /\ exc' = [exc EXCEPT ![t] = ParseRaises(reqCLen[t], reqBody[t])]
    /\ pc' = [pc EXCEPT ![t] = IF exc'[t] = "none" THEN "ana_key" ELSE "ana_except"]
    /\ UNCHANGED <<reqVars, wire, callerGone, devVars, anaVars, purgeVars>>

\* the key check left out: the call is made with whatever key there is
KeyConfiguredAlways(k) == TRUE

\* "if not GEMINI_API_KEY" of line 24
KeyConfigured(k) == k

\* lines 24-30: no key, no call
AnaKey(t) ==
    /\ pc[t] = "ana_key"
    /\ IF KeyConfigured(apiKeySet)
       THEN /\ pc' = [pc EXCEPT ![t] = "ana_prompt"]
            /\ UNCHANGED result
       ELSE /\ result' = [result EXCEPT ![t] = ConfigErrorResult]
            /\ pc' = [pc EXCEPT ![t] = "ana_respond"]
    /\ UNCHANGED <<reqVars, wire, callerGone, exc, devVars, epIdx, attempts,
                   reply, purgeVars>>

\* lines 34-127: the prompt; int(persistenceScore * 100) raises for what is
\* no number, which the outer except of line 242 turns into a result
AnaPrompt(t) ==
    /\ pc[t] = "ana_prompt"
    /\ IF reqPersist[t]
       THEN /\ epIdx' = [epIdx EXCEPT ![t] = 1]
            /\ pc' = [pc EXCEPT ![t] = "ana_loop"]
            /\ UNCHANGED result
       ELSE /\ result' = [result EXCEPT ![t] = TopLevelErrorResult("ValueError")]
            /\ pc' = [pc EXCEPT ![t] = "ana_respond"]
            /\ UNCHANGED epIdx
    /\ UNCHANGED <<reqVars, wire, callerGone, exc, devVars, attempts, reply,
                   purgeVars>>

\* lines 129-162: the next endpoint of the list gets one POST
AnaPost(t) ==
    /\ pc[t] = "ana_loop"
    /\ epIdx[t] <= NumEndpoints
    /\ attempts' = [attempts EXCEPT ![t] = Append(@, epIdx[t])]
    /\ \E r \in Replies : reply' = [reply EXCEPT ![t] = r]
    /\ pc' = [pc EXCEPT ![t] = "ana_handle"]
    /\ UNCHANGED <<reqVars, wire, callerGone, exc, devVars, epIdx, result,
                   purgeVars>>

\* lines 163-233: return a result or go on with the next endpoint; what the
\* loop's except clauses let through reaches the outer except of line 242
AnaHandle(t) ==
    /\ pc[t] = "ana_handle"
    /\ LET o == HandleReply(reply[t])
       IN IF o.kind \in {"return", "raise"}
          THEN /\ result' = [result EXCEPT ![t] =
                                IF o.kind = "return" THEN o.result
                                ELSE TopLevelErrorResult(o.exc)]
               /\ pc' = [pc EXCEPT ![t] = "ana_respond"]
               /\ UNCHANGED epIdx
          ELSE /\ epIdx' = [epIdx EXCEPT ![t] = NextEndpoint(@)]
               /\ pc' = [pc EXCEPT ![t] = "ana_loop"]
               /\ UNCHANGED result
    /\ UNCHANGED <<reqVars, wire, callerGone, exc, devVars, attempts, reply,
                   purgeVars>>

\* lines 235-240: the list is used up
AnaAllFailed(t) ==
    /\ pc[t] = "ana_loop"
    /\ epIdx[t] > NumEndpoints
    /\ result' = [result EXCEPT ![t] = AllFailedResult]
    /\ pc' = [pc EXCEPT ![t] = "ana_respond"]
    /\ UNCHANGED <<reqVars, wire, callerGone, exc, devVars, epIdx, attempts,
                   reply, purgeVars>>

\* the status do_POST answers a returned result with, line 397
AnalyzeStatus == 200

\* lines 397-399: 200, the headers, the result
AnaRespond(t) ==
    /\ pc[t] = "ana_respond"
    /\ LET evs == <<HeadEv(AnalyzeStatus, TRUE), JsonEv(result[t])>>
       IN \E k \in 0..Len(evs) :
             /\ Reply(t, evs, k)
             /\ IF k = Len(evs)
                THEN /\ pc' = [pc EXCEPT ![t] = "done"]
                     /\ UNCHANGED exc
                ELSE /\ \E e \in WriteFaults : exc' = [exc EXCEPT ![t] = e]
                     /\ pc' = [pc EXCEPT ![t] = "ana_except"]
    /\ UNCHANGED <<reqVars, devVars, anaVars, purgeVars>>

\* the status of do_POST's except clause, line 406
AnalyzeErrorStatus == 500

\* lines 400-414: any exception: 500 and a result-shaped body
AnaExcept(t) ==
    /\ pc[t] = "ana_except"
    /\ LET evs == <<HeadEv(AnalyzeErrorStatus, TRUE), JsonEv(ServerErrorResult)>>
       IN \E k \in CanWrite(t, evs) : Reply(t, evs, k)
    /\ exc' = [exc EXCEPT ![t] = "none"]
    /\ pc' = [pc EXCEPT ![t] = "done"]
    /\ UNCHANGED <<reqVars, devVars, anaVars, purgeVars>>

AnaNext(t) ==
    \/ AnaParse(t) \/ AnaKey(t) \/ AnaPrompt(t) \/ AnaPost(t)
    \/ AnaHandle(t) \/ AnaAllFailed(t) \/ AnaRespond(t) \/ AnaExcept(t)

ThreadNext(t) ==
    \/ Dispatch(t) \/ Options(t) \/ GetSystem(t) \/ NotFound(t)
    \/ HeadFile(t) \/ Unsupported(t)
    \/ Purge(t) \/ DevNext(t) \/ AnaNext(t)

Next == \E t \in Threads : ThreadNext(t)

Spec == Init /\ [][Next]_vars

(***************************************************************************)
(* Two GET /devices requests at once: ThreadingTCPServer runs do_GET for   *)
(* each connection in a thread of its own, and the steps of the two        *)
(* handlers interleave freely.  The bodies are a chunk and a byte long.    *)
(***************************************************************************)
ConcLens == {ChunkSize + 1}

InitConc ==
    /\ InitWith(Threads)
    /\ apiKeySet
    /\ \A t \in Threads :
          /\ method[t] = "GET" /\ path[t] = "/devices"
          /\ reqBody[t] = "object" /\ reqCLen[t] /\ reqPersist[t]

ThreadNextConc(t) ==
    \/ Dispatch(t) \/ DevOpenWith(t, ConcLens) \/ DevCommit(t)
    \/ DevRead(t) \/ DevWrite(t) \/ DevExit(t) \/ DevExcept(t)

NextConc == \E t \in Threads : ThreadNextConc(t)

SpecConc == InitConc /\ [][NextConc]_vars

\* every handler thread is an operating system thread that keeps running:
\* a step it can take, it takes
FairSpec == Spec /\ \A t \in Threads : WF_vars(ThreadNext(t))

(***************************************************************************)
(* Properties.                                                             *)
(***************************************************************************)
IsDevices(t) == method[t] = "GET" /\ path[t] = "/devices"
IsAnalyze(t) == method[t] = "POST" /\ path[t] = "/analyze"

IsPrefix(a, b) == Len(a) <= Len(b) /\ a = SubSeq(b, 1, Len(a))

\* the upstream bytes written to the caller, in the order of the writes
RECURSIVE DataBytes(_)
DataBytes(w) ==
    IF w = <<>> THEN <<>>
    ELSE (IF w[1].kind = "data" THEN w[1].bytes ELSE <<>>) \o DataBytes(Tail(w))

Kinds(w, k) == {i \in 1..Len(w) : w[i].kind = k}

\* the upstream answered 200 and neither a read nor a write has failed
CleanStream(t) == IsDevices(t) /\ upEvent[t] = "ok" /\ ~callerGone[t]

\* C1: while upstream and caller are well, what GET /devices has written is
\* the 200 head followed by chunks only, the chunks written are a prefix of
\* the upstream body in order, and once the handler is done after the empty
\* read they are the whole upstream body.
C1_StreamLossless ==
    \A t \in Threads :
        CleanStream(t) =>
            /\ \A i \in 1..Len(wire[t]) :
                  wire[t][i] = IF i = 1 THEN HeadEv(200, TRUE)
                               ELSE DataEv(wire[t][i].bytes)
            /\ IsPrefix(DataBytes(wire[t]), upBody[t])
            /\ Len(DataBytes(wire[t])) = IF pc[t] \in {"dev_write", "dev_blocked"}
                                         THEN upPos[t] - Len(chunk[t])
                                         ELSE IF wire[t] = <<>> THEN 0 ELSE upPos[t]
            /\ pc[t] = "done" => DataBytes(wire[t]) = upBody[t]

\* a body of one chunk and one byte has been forwarded whole
C1_Witness ==
    \E t \in Threads :
        /\ CleanStream(t) /\ pc[t] = "done"
        /\ Len(upBody[t]) = ChunkSize + 1
        /\ Cardinality(Kinds(wire[t], "data")) = 2
        /\ DataBytes(wire[t]) = upBody[t]

\* C2: when the device service answers GET /devices with an error status,
\* no 200 head and no upstream byte is ever written, and a caller that is
\* still there gets exactly the 502 head and a JSON body with the keys
\* error, details and suggestion.
C2_NonSuccessIs502 ==
    \A t \in Threads :
        (IsDevices(t) /\ upStatus[t] \in ErrorStatuses) =>
            /\ \A i \in 1..Len(wire[t]) :
                  /\ wire[t][i].kind # "data"
                  /\ wire[t][i].kind = "head" => wire[t][i].code = 502
            /\ (pc[t] = "done" /\ ~callerGone[t]) =>
                  /\ Len(wire[t]) = 2
                  /\ wire[t][1] = HeadEv(502, TRUE)
                  /\ wire[t][2].kind = "json"
                  /\ DOMAIN wire[t][2].val = {"error", "details", "suggestion"}

\* a 503 of the device service has been answered to a caller that is there
C2_Witness ==
    \E t \in Threads :
        /\ IsDevices(t) /\ upStatus[t] = 503
        /\ pc[t] = "done" /\ ~callerGone[t]
        /\ Len(wire[t]) = 2

\* C3: on GET /devices, once the 200 head is written, no second head and
\* no JSON error body is written on the same response.
C3_NoErrorAfterCommit ==
    \A t \in Threads :
        IsDevices(t) =>
            /\ Cardinality(Kinds(wire[t], "head")) <= 1
            /\ (wire[t] # <<>> /\ wire[t][1] = HeadEv(200, TRUE)) =>
                  Kinds(wire[t], "json") = {}

\* C4: POST /analyze with a Content-Length and a JSON object as body never
\* writes a status other than 200, and a caller that is still there gets
\* the 200 head and a body with exactly the keys summary, threatScore and
\* recommendation, whatever the analysis API did on any attempt.
WellFormed(t) == IsAnalyze(t) /\ reqCLen[t] /\ reqBody[t] = "object"

ResultKeys == {"summary", "threatScore", "recommendation"}

C4_AnalyzeAlways200 ==
    \A t \in Threads :
        (WellFormed(t) /\ ~callerGone[t]) =>
            /\ \A i \in Kinds(wire[t], "head") : wire[t][i].code = 200
            /\ \A i \in Kinds(wire[t], "json") : DOMAIN wire[t][i].val = ResultKeys
            /\ pc[t] = "done" =>
                  /\ Len(wire[t]) = 2
                  /\ wire[t][1] = HeadEv(200, TRUE)
                  /\ wire[t][2] = JsonEv(result[t])
                  /\ DOMAIN result[t] = ResultKeys

\* all four endpoints failed, the last with a timeout, and the caller has
\* its answer
C4_Witness ==
    \E t \in Threads :
        /\ WellFormed(t) /\ ~callerGone[t] /\ pc[t] = "done"
        /\ Len(attempts[t]) = NumEndpoints
        /\ reply[t].kind = "timeout"
        /\ Len(wire[t]) = 2

\* a reply without threatScore has been answered
C4_WitnessMissingScore ==
    \E t \in Threads :
        /\ WellFormed(t) /\ ~callerGone[t] /\ pc[t] = "done"
        /\ reply[t].kind = "text" /\ reply[t].text.form = "object"
        /\ reply[t].text.score = Absent
        /\ result[t].threatScore = DefaultScore

\* C5: every result analyze_device_with_gemini returns has a threatScore in
\* 0..100 and a summary of at most 500 characters.
C5_ResultInRange ==
    \A t \in Threads :
        result[t] # NoVal =>
            /\ result[t].threatScore \in 0..100
            /\ result[t].summary.len <= SummaryMax

\* the half of C5 the code keeps: the summary is at most 500 characters
C5_SummaryBounded ==
    \A t \in Threads : result[t] # NoVal => result[t].summary.len <= SummaryMax

\* C6: POST /analyze with a body that is no JSON is answered with a 4xx
\* status, and no POST goes to the analysis API.
C6_BadBodyIs4xx ==
    \A t \in Threads :
        (IsAnalyze(t) /\ reqCLen[t] /\ reqBody[t] = "invalid") =>
            /\ attempts[t] = <<>>
            /\ \A i \in Kinds(wire[t], "head") : wire[t][i].code \in 400..499
            /\ (pc[t] = "done" /\ ~callerGone[t]) => Kinds(wire[t], "head") # {}

\* the half of C6 the code keeps: no POST to the analysis API
C6_BadBodyNoUpstream ==
    \A t \in Threads :
        (IsAnalyze(t) /\ reqBody[t] # "object") => attempts[t] = <<>>

C7_WitnessMidStream ==
    \E t \in Threads :
        /\ IsDevices(t) /\ pc[t] = "done" /\ upEvent[t] = "read_reset"
        /\ upPos[t] > 0 /\ upReqs[t] = 1

ForwardingCut(t) ==
    IsDevices(t) /\ callerGone[t] /\ upEvent[t] = "ok"

C9_DisconnectStopsRelay ==
    /\ [][\A t \in Threads :
            ForwardingCut(t) =>
                /\ upReads'[t] = upReads[t]
                /\ upReqs'[t] = upReqs[t]
                /\ upPos'[t] = upPos[t]
                /\ wire'[t] = wire[t]]_vars
    /\ [](\A t \in Threads :
            ForwardingCut(t) =>
                /\ pc[t] \in {"dev_exit", "dev_except", "done"}
                /\ pc[t] = "done" => ~upOpen[t]
                /\ \A i \in Kinds(wire[t], "head") : wire[t][i].code = 200
                /\ Kinds(wire[t], "json") = {})

\* the caller went away after the first chunk of a longer body: the handler
\* is done, the upstream is closed, the rest of the body was never read
C9_Witness ==
    \E t \in Threads :
        /\ ForwardingCut(t) /\ pc[t] = "done" /\ ~upOpen[t]
        /\ upEvent[t] = "ok"
        /\ Len(DataBytes(wire[t])) = ChunkSize
        /\ upPos[t] < Len(upBody[t])

\* C10: an upstream timeout before any byte went to the caller, while
\* connecting or while waiting for the response headers, is answered like
\* an unreachable upstream: 502 and the error, details, suggestion body.
C10_TimeoutIs502 ==
    \A t \in Threads :
        (/\ IsDevices(t) /\ pc[t] = "done" /\ ~callerGone[t]
         /\ upEvent[t] \in {"connect_timeout", "header_timeout"}) =>
            wire[t] = <<HeadEv(502, TRUE), JsonEv(GatewayError)>>

\* the half of C10 the code keeps: a timeout while connecting is a 502
C10_ConnectTimeoutIs502 ==
    \A t \in Threads :
        (/\ IsDevices(t) /\ pc[t] = "done" /\ ~callerGone[t]
         /\ upEvent[t] \in {"connect_timeout", "refused"}) =>
            wire[t] = <<HeadEv(502, TRUE), JsonEv(GatewayError)>>

\* the analysis API's last answer has been dealt with by the loop
Handled(t) == IsAnalyze(t) /\ pc[t] \in {"ana_loop", "ana_respond", "ana_except", "done"}

Answered(t, codes) ==
    Handled(t) /\ reply[t].kind = "http_error" /\ reply[t].code \in codes

\* C11 as stated: after an HTTP 429 of the analysis API the result is
\* exactly {summary: "Rate limit exceeded", threatScore: 0,
\* recommendation: "Wait"}.
C11_RateLimitExact ==
    \A t \in Threads :
        Answered(t, {429}) =>
            result[t] = [summary |-> Str("Rate limit exceeded"),
                         threatScore |-> 0, recommendation |-> Str("Wait")]

\* C11 as amended: after an HTTP 429 the result is exactly
\* {summary: "Rate limit exceeded (wait 60s)", threatScore: 0,
\* recommendation: "Wait"}, no further endpoint is tried, and a caller that
\* is still there gets it under 200.
C11_RateLimitWait60 ==
    \A t \in Threads :
        Answered(t, {429}) =>
            /\ pc[t] # "ana_loop"
            /\ result[t] = [summary |-> Str("Rate limit exceeded (wait 60s)"),
                            threatScore |-> 0, recommendation |-> Str("Wait")]
            /\ (pc[t] = "done" /\ ~callerGone[t]) =>
                  wire[t] = <<HeadEv(200, TRUE), JsonEv(result[t])>>

\* the third endpoint answered 429 and the caller has the result
C11_Witness ==
    \E t \in Threads :
        /\ Answered(t, {429}) /\ pc[t] = "done" /\ ~callerGone[t]
        /\ attempts[t] = <<1, 2, 3>>
        /\ result[t].recommendation = Str("Wait")

\* C12: after an HTTP 401 or 403 of the analysis API the result is exactly
\* {summary: "API key invalid or unauthorized", threatScore: 0,
\* recommendation: "Error"}.
C12_UnauthorizedResult ==
    \A t \in Threads :
        (Answered(t, {401, 403}) /\ pc[t] # "ana_loop") =>
            result[t] = [summary |-> Str("API key invalid or unauthorized"),
                         threatScore |-> 0, recommendation |-> Str("Error")]

\* C13: without a configured key, POST /analyze with a well-formed body
\* sends no POST to the analysis API, and the result is exactly
\* {summary: "API Key not configured on server", threatScore: 0,
\* recommendation: "Config Error"}, which a caller that is still there
\* gets under 200.
C13_NoKeyNoCall ==
    \A t \in Threads :
        (WellFormed(t) /\ ~apiKeySet) =>
            /\ attempts[t] = <<>>
            /\ pc[t] \in {"ana_respond", "ana_except", "done"} =>
                  result[t] = [summary |-> Str("API Key not configured on server"),
                               threatScore |-> 0,
                               recommendation |-> Str("Config Error")]
            /\ (pc[t] = "done" /\ ~callerGone[t]) =>
                  wire[t] = <<HeadEv(200, TRUE), JsonEv(result[t])>>

\* the result for a missing key has gone to the caller
C13_Witness ==
    \E t \in Threads :
        /\ WellFormed(t) /\ ~apiKeySet /\ pc[t] = "done" /\ ~callerGone[t]
        /\ Len(wire[t]) = 2
        /\ result[t].recommendation = Str("Config Error")

\* C14: every head the server writes carries the cross-origin headers.
C14_EveryResponseHasCors ==
    \A t \in Threads :
        \A i \in Kinds(wire[t], "head") : wire[t][i].cors

\* the part of C14 the code keeps: the answers of the recognised routes,
\* of every status, carry the cross-origin headers
C14_RoutesHaveCors ==
    \A t \in Threads :
        \A i \in Kinds(wire[t], "head") :
            wire[t][i].code \in {200, 500, 502} /\ method[t] \notin {"HEAD", "PUT"}
                => wire[t][i].cors

\* C15: POST /purge answers 200 only when the cleanup script is there and
\* exits with zero, 404 when it is absent and 500 when it exits non-zero.
IsPurge(t) == method[t] = "POST" /\ path[t] = "/purge"

C15_PurgeReportsFailure ==
    \A t \in Threads :
        (IsPurge(t) /\ pc[t] = "done" /\ ~callerGone[t]) =>
            /\ wire[t] # <<>>
            /\ wire[t][1].code = CASE script[t] = "ok" -> 200
                                    [] script[t] = "absent" -> 404
                                    [] OTHER -> 500

\* C17: a request that is none of GET /system, GET /devices,
\* POST /analyze, POST /purge and OPTIONS * is answered with 404.
Recognised(t) ==
    \/ method[t] = "OPTIONS"
    \/ method[t] = "GET" /\ path[t] \in {"/system", "/devices"}
    \/ method[t] = "POST" /\ path[t] \in {"/analyze", "/purge"}

C17_UnmatchedIs404 ==
    \A t \in Threads :
        (~Recognised(t) /\ pc[t] = "done" /\ ~callerGone[t]) =>
            /\ wire[t] # <<>>
            /\ wire[t][1].kind = "head" /\ wire[t][1].code = 404

\* the part of C17 the code keeps: an unknown path under GET or POST is
\* answered with 404 and nothing else
C17_UnknownPathIs404 ==
    \A t \in Threads :
        (/\ ~Recognised(t) /\ method[t] \in {"GET", "POST"}
         /\ pc[t] = "done" /\ ~callerGone[t]) =>
            wire[t] = <<HeadEv(404, FALSE)>>

\* C16: the relay holds at most one chunk of at most ChunkSize bytes: the
\* chunk variable and every write are at most ChunkSize bytes, the bytes
\* read from the upstream and not yet written are at most one chunk, and
\* a read is made only when all bytes read before are written.
C16_OneChunkHeld ==
    \A t \in Threads :
        IsDevices(t) =>
            /\ Len(chunk[t]) <= ChunkSize
            /\ \A i \in Kinds(wire[t], "data") :
                  Len(wire[t][i].bytes) \in 1..ChunkSize
            /\ upPos[t] - Len(DataBytes(wire[t])) \in 0..ChunkSize
            /\ pc[t] = "dev_read" => upPos[t] = Len(DataBytes(wire[t]))
            /\ pc[t] = "dev_write" =>
                  upPos[t] - Len(DataBytes(wire[t])) = Len(chunk[t])

\* the second full chunk of a longer body is held while the first is written
C16_Witness ==
    \E t \in Threads :
        /\ IsDevices(t) /\ pc[t] = "dev_write"
        /\ Len(upBody[t]) > 2 * ChunkSize
        /\ upPos[t] = 2 * ChunkSize
        /\ Len(chunk[t]) = ChunkSize
        /\ Len(DataBytes(wire[t])) = ChunkSize

\* C18 as stated: every GET /devices request reaches its end.
C18_AlwaysReturns ==
    \A t \in Threads : (IsDevices(t) /\ pc[t] = "dispatch") ~> pc[t] = "done"

\* What holds of C18: the loop is left with the first empty read, failed read
\* or failed write, and every GET /devices request reaches its end unless
\* a write of a chunk waits without end for a caller that neither reads
\* nor closes.
C18_ReturnsUnlessBlocked ==
    /\ \A t \in Threads :
          (IsDevices(t) /\ pc[t] = "dispatch") ~> pc[t] \in {"done", "dev_blocked"}
    /\ [][\A t \in Threads :
            /\ (pc[t] = "dev_read" /\ upReads'[t] # upReads[t]
                 /\ (upPos'[t] = upPos[t] \/ exc'[t] # "none"))
                  => pc'[t] = "dev_exit"
            /\ (pc[t] = "dev_write" /\ callerGone'[t])
                  => pc'[t] = "dev_exit"
            /\ (pc[t] = "dev_exit" /\ pc'[t] # "dev_exit")
                  => pc'[t] \in {"done", "dev_except"}]_vars

\* a body of two chunks and a byte was forwarded, the fourth read was empty,
\* and the handler has returned
C18_ReturnedAfterEof ==
    \E t \in Threads :
        /\ IsDevices(t) /\ pc[t] = "done" /\ upEvent[t] = "ok"
        /\ ~callerGone[t]
        /\ upReads[t] = 4 /\ upPos[t] = 2 * ChunkSize + 1

\* all of the model's state that belongs to the request of thread t
Own(t) ==
    <<method[t], path[t], reqBody[t], reqCLen[t], reqPersist[t], pc[t],
      wire[t], callerGone[t], exc[t], upReqs[t], upEvent[t], upStatus[t],
      upBody[t], upPos[t], upOpen[t], upReads[t], chunk[t]>>

\* C19: with two GET /devices requests handled at once, under every
\* interleaving, the bytes written to each caller are a prefix of that
\* caller's own upstream body, the chunk a handler is about to write is the
\* next part of its own body, and a step of one handler changes nothing
\* that belongs to the other request.
C19_NoCrossTalk ==
    /\ [](\A t \in Threads :
            /\ IsPrefix(DataBytes(wire[t]), upBody[t])
            /\ pc[t] = "dev_write" =>
                  IsPrefix(DataBytes(wire[t]) \o chunk[t], upBody[t]))
    /\ [][\E s \in Threads : \A t \in Threads \ {s} : Own(t)' = Own(t)]_vars

\* both handlers have written their first chunk and hold their second, the
\* two bodies differing in every byte
C19_Witness ==
    /\ \A t \in Threads :
          /\ IsDevices(t) /\ pc[t] = "dev_write"
          /\ Len(DataBytes(wire[t])) = ChunkSize
          /\ Len(chunk[t]) = 1
    /\ upBody[1] # upBody[2]
    /\ chunk[1] # chunk[2]

\* the failures C20 names: an HTTP error other than 429, another failure of
\* the POST or of decoding its body, a body without candidates, content
\* or parts
NamedFailure(r) ==
    \/ r.kind = "http_error" /\ r.code # 429
    \/ r.kind \in {"url_error", "timeout", "bad_json"}
    \/ r.kind \in {"no_candidates", "no_content", "no_parts"}

\* reply text that is JSON but no object, or an object whose threatScore
\* int() rejects
UnusableText(r) ==
    /\ r.kind = "text"
    /\ \/ r.text.form = "nonobject"
       \/ r.text.form = "object" /\ r.text.score.ty \in {"badstr", "null"}

\* C20 as stated: the endpoints are contacted in list order, at most
\* NumEndpoints of them; the next one only after a named failure of the one
\* before, so that reply text or a 429 ends the loop with a result; when
\* all have failed the result is "All API endpoints failed".
C20_TextEndsLoop ==
    \A t \in Threads :
        IsAnalyze(t) =>
            /\ Len(attempts[t]) <= NumEndpoints
            /\ \A i \in 1..Len(attempts[t]) : attempts[t][i] = i
            /\ (pc[t] = "ana_loop" /\ epIdx[t] > 1) => NamedFailure(reply[t])
            /\ (pc[t] = "ana_respond" /\ attempts[t] # <<>>) =>
                  IF NamedFailure(reply[t])
                  THEN Len(attempts[t]) = NumEndpoints
                       /\ result[t] = AllFailedResult
                  ELSE result[t] \notin {NoVal, AllFailedResult}

\* C20 as amended: as above, where reply text that is JSON but no object,
\* or whose threatScore int() rejects, is a failure as well and is followed
\* by the next endpoint; every other reply text and a 429 end the loop with
\* a result.
C20_InOrderUntilResult ==
    \A t \in Threads :
        IsAnalyze(t) =>
            /\ Len(attempts[t]) <= NumEndpoints
            /\ \A i \in 1..Len(attempts[t]) : attempts[t][i] = i
            /\ (pc[t] = "ana_loop" /\ epIdx[t] > 1) =>
                  (NamedFailure(reply[t]) \/ UnusableText(reply[t]))
            /\ (pc[t] = "ana_respond" /\ attempts[t] # <<>>) =>
                  IF NamedFailure(reply[t]) \/ UnusableText(reply[t])
                  THEN Len(attempts[t]) = NumEndpoints
                       /\ result[t] = AllFailedResult
                  ELSE result[t] \notin {NoVal, AllFailedResult}

\* all four endpoints were contacted in order, the last answered with reply
\* text that is no JSON object, and the result is "All API endpoints failed"
C20_Witness ==
    \E t \in Threads :
        /\ IsAnalyze(t) /\ pc[t] = "ana_respond"
        /\ attempts[t] = <<1, 2, 3, 4>>
        /\ UnusableText(reply[t])
        /\ result[t] = AllFailedResult
====
